---- MODULE Spec2Model ----
(***************************************************************************)
(* Model of the block/chain integrity engine of Blockchain_Demo_Educativo: *)
(* Bloque (src/src/models/bloque.py), CadenaDeBloques                      *)
(* (src/src/models/blockchain.py), the validators                          *)
(* (src/src/utils/validators.py), Transaccion                              *)
(* (src/src/models/transaccion.py) and BlockchainController                *)
(* (src/src/controllers/blockchain_controller.py).                         *)
(*                                                                         *)
(* Representation of Python values.                                        *)
(*  - A dict is a TLA+ function from its keys (strings) to its values, so  *)
(*    two dicts are equal exactly when Python's == says so.                *)
(*  - A hash string is a tuple: Cero is the literal "0", HashFalso is some *)
(*    other string, and a SHA-256 digest is <<"sha256", preimage>>, i.e.   *)
(*    SHA-256 is idealised as collision free.                              *)
(*  - A timestamp (datetime.now().isoformat()) is the clock reading, an    *)
(*    integer; str() of an integer is the integer.                         *)
(*  - An amount is a pair <<tipo, n>>, see Cantidades.                     *)
(*  - NoSerial stands for a Python object json cannot encode.              *)
(***************************************************************************)
EXTENDS Integers, Sequences, FiniteSets, TLC

VARIABLES
    cadena,         \* CadenaDeBloques.__cadena: the list of Bloque objects
    reloj,          \* last reading of datetime.now()
    observadores,   \* BlockchainController.__observadores
    pc,             \* "idle", or "notificando" inside notificar_observadores
    it,             \* index of the list iterator of notificar_observadores
    pend,           \* return value of the operation that is notifying
    inicio,         \* history: observadores when the notification round began
    llamados,       \* history: observers invoked by the running/last operation
    ultima,         \* history: last completed operation, its inputs and result
    lanzaron,       \* history: positions of llamados whose callback raised
    instancia       \* CadenaDeBloques.__instance and its __inicializado flag

vars == <<cadena, reloj, observadores, pc, it, pend, inicio, llamados, ultima,
          lanzaron, instancia>>

(***************************************************************************)
(* Bounds of the model.                                                    *)
(***************************************************************************)
MaxBloques == 3
MaxReloj == 1
NumObs == 2
MaxRepeticiones == 2
MaxValidadores == 4

(***************************************************************************)
(* Python values                                                           *)
(***************************************************************************)
NoSerial == "<objeto no serializable>"
Cero == <<"0">>
HashFalso == <<"deadbeef">>
SinHash == <<>>

\* Amounts: <<"num", n>> the number n, <<"nan", 0>> float("nan"),
\* <<"dec", n>> decimal.Decimal(n), <<"str", n>> the string str(n),
\* <<"txt", 0>> the string "abc", <<"vacio", 0>> the string "",
\* <<"none", 0>> None.
Cantidades ==
    { <<"num", 2>>, <<"num", 0>>, <<"num", -1>>, <<"nan", 0>>, <<"dec", 2>>,
      <<"str", 2>>, <<"txt", 0>>, <<"vacio", 0>>, <<"none", 0>> }

\* bool(c): None, "", 0 and Decimal(0) are falsy
Truthy(c) ==
    CASE c[1] \in {"num", "dec"} -> c[2] # 0
      [] c[1] \in {"vacio", "none"} -> FALSE
      [] OTHER -> TRUE

\* float(c) raises ValueError for "abc" (and for ""), TypeError for None
FloatFalla(c) == c[1] \in {"txt", "vacio", "none"}

\* float(c) <= 0; every comparison with nan is False
FloatMenorIgualCero(c) == c[1] # "nan" /\ c[2] <= 0

\* c <= 0 on the value itself: str <= int raises TypeError
CompararFalla(c) == c[1] \in {"str", "txt", "vacio", "none"}
MenorIgualCero(c) == c[1] # "nan" /\ c[2] <= 0

(***************************************************************************)
(* hash_utils.py                                                           *)
(***************************************************************************)
\* every key a payload of the model uses, in lexicographic order
OrdenClaves ==
    << "atacante", "cantidad", "descripcion", "emisor", "mensaje", "nota",
       "receptor", "timestamp" >>

\* json.dumps raises TypeError on a value it cannot encode
EsSerializable(d) ==
    \A k \in DOMAIN d :
        CASE k = "cantidad" -> d[k][1] # "dec"
          [] k = "timestamp" -> TRUE
          [] OTHER -> d[k] # NoSerial

\* json.dumps(d, sort_keys=True, ensure_ascii=False): the items by sorted key
JsonDumpsSorted(d) ==
    LET claves == SelectSeq(OrdenClaves, LAMBDA k : k \in DOMAIN d)
    IN  [i \in 1..Len(claves) |-> <<claves[i], d[claves[i]]>>]

\* "|".join of str() of each part, a dict rendered with sorted keys
combinar_datos_para_hash(indice, timestamp, datos, hash_previo, nonce) ==
    <<indice, timestamp, JsonDumpsSorted(datos), hash_previo, nonce>>

calcular_sha256(texto) == <<"sha256", texto>>

(***************************************************************************)
(* bloque.py                                                               *)
(***************************************************************************)
CamposBloque ==
    <<"indice", "timestamp", "datos", "hash_previo", "hash_actual", "nonce">>

\* Bloque.calcular_hash; raises when datos is not serialisable
calcular_hash(b) ==
    calcular_sha256(combinar_datos_para_hash(
        b.indice, b.timestamp, b.datos, b.hash_previo, b.nonce))

\* Bloque.__init__: stores the fields, then computes the hash
Bloque(indice, timestamp, datos, hash_previo, nonce) ==
    LET b == [indice |-> indice, timestamp |-> timestamp, datos |-> datos,
              hash_previo |-> hash_previo, hash_actual |-> SinHash,
              nonce |-> nonce]
    IN  [b EXCEPT !.hash_actual = calcular_hash(b)]

\* Bloque.validar, for a block whose datos json can encode
validar(b) == calcular_hash(b) = b.hash_actual

\* Bloque.validar returns True (it raises TypeError on unencodable datos)
PasaValidar(b) == EsSerializable(b.datos) /\ validar(b)

\* Bloque.to_dict: a new dict holding the six fields
to_dict(b) ==
    [k \in {CamposBloque[i] : i \in 1..Len(CamposBloque)} |-> b[k]]

\* Bloque.from_dict raises KeyError unless these keys are present
FromDictFalla(r) ==
    ~({"indice", "timestamp", "datos", "hash_previo", "hash_actual"}
        \subseteq DOMAIN r)

\* from_dict without "bloque.__hash_actual = datos['hash_actual']"
FromDictSinRestaurar(r) ==
    Bloque(r.indice, r.timestamp, r.datos, r.hash_previo,
           IF "nonce" \in DOMAIN r THEN r.nonce ELSE 0)

\* Bloque.from_dict: builds the block, then restores the stored hash
from_dict(r) ==
    LET b == Bloque(r.indice, r.timestamp, r.datos, r.hash_previo,
                    IF "nonce" \in DOMAIN r THEN r.nonce ELSE 0)
    IN  [b EXCEPT !.hash_actual = r.hash_actual]

\* Bloque.crear_bloque with datetime.now() reading t
crear_bloque(indice, datos, hash_previo, t) ==
    Bloque(indice, t, datos, hash_previo, 0)

DatosGenesis ==
    [mensaje |-> "Bloque Genesis", descripcion |-> "Primer bloque de la cadena"]

\* crear_bloque_genesis handing Bloque some other hash_previo than "0"
CrearGenesisEnlazado(t) == Bloque(0, t, DatosGenesis, HashFalso, 0)

\* Bloque.crear_bloque_genesis with datetime.now() reading t
crear_bloque_genesis(t) == Bloque(0, t, DatosGenesis, Cero, 0)

\* _modificar_datos that also recomputes the hash
ModificarDatosRecalcula(b, nuevos_datos) ==
    LET m == [b EXCEPT !.datos = nuevos_datos]
    IN  [m EXCEPT !.hash_actual = calcular_hash(m)]

\* Bloque._modificar_datos: replaces datos, keeps the stored hash
ModificarDatos(b, nuevos_datos) == [b EXCEPT !.datos = nuevos_datos]

(***************************************************************************)
(* validators.py                                                           *)
(***************************************************************************)
Msg(m, n) == [m |-> m, n |-> n]
Res(ok, m, n) == [ok |-> ok, msg |-> Msg(m, n)]

\* Validador.validar of a validator with no successor
ValidadorValidar(especifico) ==
    IF ~especifico.ok THEN especifico ELSE Res(TRUE, "Validacion exitosa", -1)

\* ---- pipelines: sig[v] is v._siguiente, 0 for None; reglas[v] tells
\* whether v._validar_especifico accepts the datos being validated ----
Validadores == 1..MaxValidadores

\* Validador.__init__ of every validator: no successor
SinSiguiente == [v \in Validadores |-> 0]

\* a.establecer_siguiente(b): a._siguiente = b, and b is returned
establecer_siguiente(sig, a, b) == [sig |-> [sig EXCEPT ![a] = b], ret |-> b]

\* vs[1].establecer_siguiente(vs[2]).establecer_siguiente(vs[3])... on new
\* validators: the _siguiente fields that result
Encadenar(vs) ==
    LET E[i \in 1..Len(vs)] ==
            IF i = 1 THEN [sig |-> SinSiguiente, ret |-> vs[1]]
            ELSE establecer_siguiente(E[i - 1].sig, E[i - 1].ret, vs[i])
    IN  E[Len(vs)].sig

\* Validador.validar running every validator of the pipeline before it
\* returns the first failure
ValidarSinCorte(sig, reglas, v) ==
    LET cam[i \in 1..MaxValidadores] ==
            IF i = 1 THEN v ELSE IF cam[i - 1] = 0 THEN 0 ELSE sig[cam[i - 1]]
        todos == SelectSeq([i \in 1..MaxValidadores |-> cam[i]], LAMBDA x : x # 0)
        fallan == {i \in 1..Len(todos) : ~reglas[todos[i]]}
    IN  IF fallan = {}
        THEN [ok |-> TRUE, msg |-> Msg("Validacion exitosa", -1), invocados |-> todos]
        ELSE [ok |-> FALSE, invocados |-> todos,
              msg |-> Msg("regla", todos[CHOOSE i \in fallan : \A j \in fallan : i <= j])]

\* Validador.validar on validator v: the result, and the validators whose
\* _validar_especifico ran, in the order they ran. The message of a failing
\* rule is that validator's own: Msg("regla", v).
RECURSIVE Validar(_, _, _)
Validar(sig, reglas, v) ==
    IF ~reglas[v]
    THEN [ok |-> FALSE, msg |-> Msg("regla", v), invocados |-> <<v>>]
    ELSE IF sig[v] # 0
    THEN LET r == Validar(sig, reglas, sig[v])
         IN  [r EXCEPT !.invocados = <<v>> \o @]
    ELSE [ok |-> TRUE, msg |-> Msg("Validacion exitosa", -1), invocados |-> <<v>>]

\* ValidadorTransaccion._validar_especifico on the dict the controller builds
ValidadorTransaccionEspecifico(emisor, receptor, cantidad) ==
    IF emisor = "" THEN Res(FALSE, "El campo 'emisor' no puede estar vacio", -1)
    ELSE IF receptor = ""
    THEN Res(FALSE, "El campo 'receptor' no puede estar vacio", -1)
    ELSE IF ~Truthy(cantidad)
    THEN Res(FALSE, "El campo 'cantidad' no puede estar vacio", -1)
    ELSE IF FloatFalla(cantidad)
    THEN Res(FALSE, "La cantidad debe ser un numero valido", -1)
    ELSE IF FloatMenorIgualCero(cantidad)
    THEN Res(FALSE, "La cantidad debe ser mayor a cero", -1)
    ELSE Res(TRUE, "", -1)

\* ValidadorBloque._validar_especifico on a block's to_dict
ValidadorBloqueEspecifico(r) ==
    IF ~({"indice", "timestamp", "datos", "hash_previo", "hash_actual"}
           \subseteq DOMAIN r)
    THEN Res(FALSE, "Falta el campo requerido en el bloque", -1)
    ELSE IF r.indice < 0
    THEN Res(FALSE, "El indice del bloque debe ser mayor o igual a cero", -1)
    ELSE IF r.hash_actual = SinHash
    THEN Res(FALSE, "El hash actual del bloque no puede estar vacio", -1)
    ELSE Res(TRUE, "", -1)

\* dict.get(k) != v, where a missing key gives None
GetDistinto(r, k, v) == k \notin DOMAIN r \/ r[k] # v

\* actual.get("hash_previo") != anterior.get("hash_actual"); a missing key
\* gives None, and None != None is False
EnlaceRoto(actual, anterior) ==
    IF "hash_previo" \in DOMAIN actual /\ "hash_actual" \in DOMAIN anterior
    THEN actual.hash_previo # anterior.hash_actual
    ELSE ("hash_previo" \in DOMAIN actual) # ("hash_actual" \in DOMAIN anterior)

\* the loop of ValidadorCadena._validar_especifico from position i (0-based)
RECURSIVE ValidarEnlaces(_, _)
ValidarEnlaces(datos, i) ==
    IF i >= Len(datos) THEN Res(TRUE, "", -1)
    ELSE IF GetDistinto(datos[i + 1], "indice", i)
    THEN Res(FALSE, "Indice incorrecto en bloque", i)
    ELSE IF EnlaceRoto(datos[i + 1], datos[i])
    THEN Res(FALSE, "Cadena rota en bloque: hash_previo no coincide", i)
    ELSE ValidarEnlaces(datos, i + 1)

\* ValidadorCadena._validar_especifico on a list of dicts
ValidadorCadenaEspecifico(datos) ==
    IF Len(datos) = 0 THEN Res(FALSE, "La cadena esta vacia", -1)
    ELSE IF GetDistinto(datos[1], "indice", 0)
    THEN Res(FALSE, "El primer bloque debe tener indice 0", 0)
    ELSE IF GetDistinto(datos[1], "hash_previo", Cero)
    THEN Res(FALSE, "El bloque genesis debe tener hash_previo = '0'", 0)
    ELSE ValidarEnlaces(datos, 1)

(***************************************************************************)
(* blockchain.py: CadenaDeBloques                                          *)
(***************************************************************************)
\* [bloque.to_dict() for bloque in self.__cadena]
obtener_cadena_completa(c) == [i \in 1..Len(c) |-> to_dict(c[i])]

TodosSerializables(c) == \A i \in 1..Len(c) : EsSerializable(c[i].datos)

\* agregar_bloque linking the new block to the hash recomputed from the
\* tail's current content instead of the tail's stored hash
AgregarBloqueHashRecalculado(c, datos, t) ==
    IF ~EsSerializable(datos) \/ ~EsSerializable(c[Len(c)].datos)
    THEN [ok |-> FALSE, cadena |-> c, det |-> "excepcion"]
    ELSE [ok |-> TRUE, det |-> "agregado",
          cadena |-> Append(c, crear_bloque(c[Len(c)].indice + 1, datos,
                                            calcular_hash(c[Len(c)]), t))]

\* agregar_bloque that first rebuilds every block from its current payload
AgregarBloqueRehace(c, datos, t) ==
    IF ~EsSerializable(datos)
    THEN [ok |-> FALSE, cadena |-> c, det |-> "excepcion"]
    ELSE LET R[i \in 1..Len(c)] ==
                 IF i = 1 THEN Bloque(0, c[1].timestamp, c[1].datos, Cero, 0)
                 ELSE Bloque(i - 1, c[i].timestamp, c[i].datos, R[i - 1].hash_actual, 0)
         IN  [ok |-> TRUE, det |-> "agregado",
              cadena |-> Append([i \in 1..Len(c) |-> R[i]],
                                crear_bloque(Len(c), datos, R[Len(c)].hash_actual, t))]

\* agregar_bloque linking the new block to the tail's hash_previo
AgregarBloqueEnlaceMal(c, datos, t) ==
    IF ~EsSerializable(datos)
    THEN [ok |-> FALSE, cadena |-> c, det |-> "excepcion"]
    ELSE [ok |-> TRUE, det |-> "agregado",
          cadena |-> Append(c, crear_bloque(c[Len(c)].indice + 1, datos,
                                            c[Len(c)].hash_previo, t))]

\* agregar_bloque numbering the new block len(cadena) + 1
AgregarBloqueIndiceMal(c, datos, t) ==
    IF ~EsSerializable(datos)
    THEN [ok |-> FALSE, cadena |-> c, det |-> "excepcion"]
    ELSE [ok |-> TRUE, det |-> "agregado",
          cadena |-> Append(c, crear_bloque(Len(c) + 1, datos,
                                            c[Len(c)].hash_actual, t))]

\* CadenaDeBloques.agregar_bloque with datetime.now() reading t: the new
\* chain and the value returned; det tells which branch returned
agregar_bloque(c, datos, t) ==
    LET ultimo_bloque == c[Len(c)]
        nuevo_indice == ultimo_bloque.indice + 1
        hash_previo == ultimo_bloque.hash_actual
    IN  IF ~EsSerializable(datos)
        THEN [ok |-> FALSE, cadena |-> c, det |-> "excepcion"]
        ELSE LET nuevo_bloque == crear_bloque(nuevo_indice, datos, hash_previo, t)
                 v == ValidadorValidar(ValidadorBloqueEspecifico(to_dict(nuevo_bloque)))
             IN  IF ~v.ok
                 THEN [ok |-> FALSE, cadena |-> c, det |-> "bloque invalido"]
                 ELSE [ok |-> TRUE, cadena |-> Append(c, nuevo_bloque),
                       det |-> "agregado"]

\* validar_cadena running ValidadorCadena before the blocks' own validar
ValidarCadenaEnlacesPrimero(c) ==
    LET v == ValidadorValidar(ValidadorCadenaEspecifico(obtener_cadena_completa(c)))
        malos == {i \in 1..Len(c) : ~PasaValidar(c[i])}
    IN  IF ~v.ok THEN [exc |-> FALSE, ok |-> v.ok, msg |-> v.msg]
        ELSE IF malos # {}
        THEN LET i == CHOOSE j \in malos : \A k \in malos : j <= k
             IN  [exc |-> ~EsSerializable(c[i].datos), ok |-> FALSE,
                  msg |-> Msg("Bloque tiene hash invalido", c[i].indice)]
        ELSE [exc |-> FALSE, ok |-> v.ok, msg |-> v.msg]

\* CadenaDeBloques.validar_cadena: exc is TRUE when it raises (Bloque.validar
\* on a block whose datos json cannot encode) instead of returning
validar_cadena(c) ==
    LET malos == {i \in 1..Len(c) : ~PasaValidar(c[i])}
    IN  IF malos # {}
        THEN LET i == CHOOSE j \in malos : \A k \in malos : j <= k
             IN  IF ~EsSerializable(c[i].datos)
                 THEN [exc |-> TRUE, ok |-> FALSE, msg |-> Msg("TypeError", c[i].indice)]
                 ELSE [exc |-> FALSE, ok |-> FALSE,
                       msg |-> Msg("Bloque tiene hash invalido", c[i].indice)]
        ELSE LET v == ValidadorValidar(ValidadorCadenaEspecifico(obtener_cadena_completa(c)))
             IN  [exc |-> FALSE, ok |-> v.ok, msg |-> v.msg]

\* json.dump of a list of dicts: each dict as its items in insertion order
JsonDump(lista) ==
    [i \in 1..Len(lista) |->
        LET claves == SelectSeq(CamposBloque, LAMBDA k : k \in DOMAIN lista[i])
        IN  [j \in 1..Len(claves) |-> <<claves[j], lista[i][claves[j]]>>]]

\* json.load: each object becomes a dict
JsonLoad(texto) ==
    [i \in 1..Len(texto) |->
        [k \in {texto[i][j][1] : j \in 1..Len(texto[i])} |->
            LET j == CHOOSE n \in 1..Len(texto[i]) : texto[i][n][1] = k
            IN  texto[i][j][2]]]

\* CadenaDeBloques.exportar_json: the value returned (json.dump raises on an
\* unencodable payload; the exception is caught)
exportar_json(c) == TodosSerializables(c)

\* importar_json rebuilding self.__cadena in place: a KeyError half way
\* leaves the blocks rebuilt so far
ImportarJsonParcial(c, f) ==
    IF f.tipo \in {"noexiste", "malformado"}
    THEN [ok |-> FALSE, cadena |-> c, det |-> "excepcion"]
    ELSE IF f.tipo = "nolista"
    THEN [ok |-> FALSE, cadena |-> c, det |-> "cadena invalida"]
    ELSE LET cadena_dict == JsonLoad(f.texto)
             v == ValidadorValidar(ValidadorCadenaEspecifico(cadena_dict))
             malos == {i \in 1..Len(cadena_dict) : FromDictFalla(cadena_dict[i])}
         IN  IF ~v.ok
             THEN [ok |-> FALSE, cadena |-> c, det |-> "cadena invalida"]
             ELSE IF malos # {}
             THEN LET p == CHOOSE i \in malos : \A j \in malos : i <= j
                  IN  [ok |-> FALSE, det |-> "excepcion",
                       cadena |-> [i \in 1..(p - 1) |-> from_dict(cadena_dict[i])]]
             ELSE [ok |-> TRUE,
                   cadena |-> [i \in 1..Len(cadena_dict) |-> from_dict(cadena_dict[i])],
                   det |-> "importada"]

\* importar_json without the ValidadorCadena check
ImportarJsonSinValidar(c, f) ==
    IF f.tipo \in {"noexiste", "malformado", "nolista"}
    THEN [ok |-> FALSE, cadena |-> c, det |-> "excepcion"]
    ELSE LET cadena_dict == JsonLoad(f.texto)
         IN  IF \E i \in 1..Len(cadena_dict) : FromDictFalla(cadena_dict[i])
             THEN [ok |-> FALSE, cadena |-> c, det |-> "excepcion"]
             ELSE [ok |-> TRUE,
                   cadena |-> [i \in 1..Len(cadena_dict) |-> from_dict(cadena_dict[i])],
                   det |-> "importada"]

\* CadenaDeBloques.importar_json on a file f: [tipo |-> "noexiste"] cannot be
\* opened, [tipo |-> "malformado"] is not JSON, [tipo |-> "nolista"] is JSON
\* but no list, [tipo |-> "json", texto |-> t] is a JSON list of objects
importar_json(c, f) ==
    IF f.tipo \in {"noexiste", "malformado"}
    THEN [ok |-> FALSE, cadena |-> c, det |-> "excepcion"]
    ELSE IF f.tipo = "nolista"
    THEN [ok |-> FALSE, cadena |-> c, det |-> "cadena invalida"]
    ELSE LET cadena_dict == JsonLoad(f.texto)
             v == ValidadorValidar(ValidadorCadenaEspecifico(cadena_dict))
         IN  IF ~v.ok
             THEN [ok |-> FALSE, cadena |-> c, det |-> "cadena invalida"]
             ELSE IF \E i \in 1..Len(cadena_dict) : FromDictFalla(cadena_dict[i])
             THEN [ok |-> FALSE, cadena |-> c, det |-> "excepcion"]
             ELSE [ok |-> TRUE,
                   cadena |-> [i \in 1..Len(cadena_dict) |-> from_dict(cadena_dict[i])],
                   det |-> "importada"]

\* simular_ataque writing the payload into block indice_bloque and every
\* block after it
SimularAtaqueEnCascada(c, indice_bloque, nuevos_datos) ==
    IF 0 <= indice_bloque /\ indice_bloque < Len(c)
    THEN [ok |-> TRUE,
          cadena |-> [p \in 1..Len(c) |->
                        IF p > indice_bloque THEN ModificarDatos(c[p], nuevos_datos)
                        ELSE c[p]]]
    ELSE [ok |-> FALSE, cadena |-> c]

\* simular_ataque testing only the upper end: a negative index reaches a
\* block counted from the end of the list
SimularAtaqueNegativo(c, indice_bloque, nuevos_datos) ==
    LET p == IF indice_bloque < 0 THEN Len(c) + indice_bloque + 1 ELSE indice_bloque + 1
    IN  IF indice_bloque < Len(c) /\ p >= 1
        THEN [ok |-> TRUE, cadena |-> [c EXCEPT ![p] = ModificarDatos(@, nuevos_datos)]]
        ELSE [ok |-> FALSE, cadena |-> c]

\* CadenaDeBloques.simular_ataque
simular_ataque(c, indice_bloque, nuevos_datos) ==
    IF 0 <= indice_bloque /\ indice_bloque < Len(c)
    THEN [ok |-> TRUE,
          cadena |-> [c EXCEPT ![indice_bloque + 1] = ModificarDatos(@, nuevos_datos)]]
    ELSE [ok |-> FALSE, cadena |-> c]

\* ---- the singleton: inst is [creadas, inicializado], creadas counting the
\* objects super().__new__ made; __instance is None while creadas = 0 ----

\* CadenaDeBloques.__new__
Nuevo(inst) ==
    IF inst.creadas = 0 THEN [creadas |-> 1, inicializado |-> FALSE] ELSE inst

\* __init__ without the "if self.__inicializado: return" guard
InicializarSiempre(inst, c, t) ==
    [inst |-> [inst EXCEPT !.inicializado = TRUE], cadena |-> <<crear_bloque_genesis(t)>>]

\* CadenaDeBloques.__init__ on the object __new__ returned, the clock reading t
Inicializar(inst, c, t) ==
    IF inst.inicializado THEN [inst |-> inst, cadena |-> c]
    ELSE [inst |-> [inst EXCEPT !.inicializado = TRUE],
          cadena |-> <<crear_bloque_genesis(t)>>]

\* the call CadenaDeBloques(): __new__, then __init__ on its result
Constructor(inst, c, t) == Inicializar(Nuevo(inst), c, t)

\* CadenaDeBloques.get_instance
get_instance(inst, c, t) ==
    IF inst.creadas = 0 THEN Constructor(inst, c, t) ELSE [inst |-> inst, cadena |-> c]

\* a timestamp string datetime.fromisoformat rejects
FechaNoIso == -1
EsIso(timestamp) == timestamp >= 0

\* CadenaDeBloques.obtener_estadisticas (BlockchainController's only
\* delegates). json.dumps of the records raises TypeError on a payload it
\* cannot encode; with more than one block datetime.fromisoformat raises
\* ValueError on the first or last timestamp; validar_cadena comes last.
\* tiempo is the pair <<seconds from first to last block, blocks - 1>> that
\* the code divides and rounds; tamano_bytes, the length of the JSON text,
\* is not represented.
obtener_estadisticas(c) ==
    IF ~TodosSerializables(c)
    THEN [exc |-> "TypeError", total_bloques |-> 0, tiempo |-> <<0, 1>>, es_valida |-> FALSE]
    ELSE IF Len(c) > 1 /\ ~(EsIso(c[1].timestamp) /\ EsIso(c[Len(c)].timestamp))
    THEN [exc |-> "ValueError", total_bloques |-> 0, tiempo |-> <<0, 1>>, es_valida |-> FALSE]
    ELSE [exc |-> "", total_bloques |-> Len(c),
          tiempo |-> IF Len(c) > 1
                     THEN <<c[Len(c)].timestamp - c[1].timestamp, Len(c) - 1>>
                     ELSE <<0, 1>>,
          es_valida |-> validar_cadena(c).ok]

\* CadenaDeBloques.reiniciar with datetime.now() reading t
reiniciar(t) == <<crear_bloque_genesis(t)>>

(***************************************************************************)
(* Text: a str is the sequence of its characters.                          *)
(***************************************************************************)
\* the characters of the strings the payloads of the model hold, as they are
\* written in the source
Letras(s) ==
    CASE s = "emisor" -> <<"e", "m", "i", "s", "o", "r">>
      [] s = "receptor" -> <<"r", "e", "c", "e", "p", "t", "o", "r">>
      [] s = "cantidad" -> <<"c", "a", "n", "t", "i", "d", "a", "d">>
      [] s = "descripcion" -> <<"d", "e", "s", "c", "r", "i", "p", "c", "i", "o", "n">>
      [] s = "timestamp" -> <<"t", "i", "m", "e", "s", "t", "a", "m", "p">>
      [] s = "mensaje" -> <<"m", "e", "n", "s", "a", "j", "e">>
      [] s = "atacante" -> <<"a", "t", "a", "c", "a", "n", "t", "e">>
      [] s = "nota" -> <<"n", "o", "t", "a">>
      [] s = "" -> <<>>
      [] s = "a" -> <<"a">>
      [] s = "Alice" -> <<"A", "l", "i", "c", "e">>
      [] s = "Bob" -> <<"B", "o", "b">>
      [] s = "Bloque Genesis" -> <<"B", "l", "o", "q", "u", "e", " ", "G", "é", "n", "e", "s", "i", "s">>
      [] s = "Primer bloque de la cadena" -> <<"P", "r", "i", "m", "e", "r", " ", "b", "l", "o", "q", "u", "e", " ", "d", "e", " ", "l", "a", " ", "c", "a", "d", "e", "n", "a">>
      [] s = "DATOS MODIFICADOS" -> <<"¡", "D", "A", "T", "O", "S", " ", "M", "O", "D", "I", "F", "I", "C", "A", "D", "O", "S", "!">>
      [] s = "Hacker" -> <<"H", "a", "c", "k", "e", "r">>
      [] s = "Este bloque fue modificado para demostrar inmutabilidad" -> <<"E", "s", "t", "e", " ", "b", "l", "o", "q", "u", "e", " ", "f", "u", "e", " ", "m", "o", "d", "i", "f", "i", "c", "a", "d", "o", " ", "p", "a", "r", "a", " ", "d", "e", "m", "o", "s", "t", "r", "a", "r", " ", "i", "n", "m", "u", "t", "a", "b", "i", "l", "i", "d", "a", "d">>

\* the letters of those strings in both cases: <<upper, lower>>
Cajas ==
    { <<"A", "a">>, <<"B", "b">>, <<"C", "c">>, <<"D", "d">>, <<"E", "e">>, <<"F", "f">>, <<"G", "g">>,
      <<"H", "h">>, <<"I", "i">>, <<"J", "j">>, <<"K", "k">>, <<"L", "l">>, <<"M", "m">>, <<"N", "n">>,
      <<"O", "o">>, <<"P", "p">>, <<"Q", "q">>, <<"R", "r">>, <<"S", "s">>, <<"T", "t">>, <<"U", "u">>,
      <<"V", "v">>, <<"W", "w">>, <<"X", "x">>, <<"Y", "y">>, <<"Z", "z">>, <<"É", "é">> }

\* str.lower(), one character at a time
Mayusculas == {par[1] : par \in Cajas}

EnMinuscula == [ch \in Mayusculas |-> (CHOOSE par \in Cajas : par[1] = ch)[2]]

Minuscula(ch) == IF ch \in Mayusculas THEN EnMinuscula[ch] ELSE ch

Minusculas(texto) == [i \in DOMAIN texto |-> Minuscula(texto[i])]

\* sub in texto
Contiene(texto, sub) ==
    \E i \in 0..(Len(texto) - Len(sub)) : SubSeq(texto, i + 1, i + Len(sub)) = sub

Comillas == "\""
Digitos == <<"0", "1", "2", "3", "4", "5", "6", "7", "8", "9">>

\* datetime.isoformat() of the clock reading t; FechaNoIso is the string "ayer"
FechaIso(t) ==
    IF EsIso(t) THEN <<"2", "0", "2", "6", "-", "0", "1", "-", "0", "1", "T", "0", "0", ":", "0", "0", ":", "0">> \o <<Digitos[t + 1]>>
    ELSE <<"a", "y", "e", "r">>

\* json.dumps of one value of a payload: a float amount as repr(float), nan
\* as NaN, a string between quotes (no string of the model needs an escape)
JsonValor(k, v) ==
    CASE k = "cantidad" ->
            IF v[1] = "nan" THEN <<"N", "a", "N">> ELSE <<Digitos[v[2] + 1], ".", "0">>
      [] k = "timestamp" -> <<Comillas>> \o FechaIso(v) \o <<Comillas>>
      [] OTHER -> <<Comillas>> \o Letras(v) \o <<Comillas>>

\* the order in which the code inserts the keys of the dicts it builds
\* (Transaccion.to_dict, datos_genesis, nuevos_datos); json.load keeps it
OrdenInsercion ==
    << "emisor", "receptor", "cantidad", "mensaje", "atacante", "nota",
       "descripcion", "timestamp" >>

\* json.dumps(d, ensure_ascii=False): {"k": v, "k": v} in insertion order
JsonDumps(d) ==
    LET claves == SelectSeq(OrdenInsercion, LAMBDA k : k \in DOMAIN d)
        item(k) == <<Comillas>> \o Letras(k) \o <<Comillas, ":", " ">> \o JsonValor(k, d[k])
        unir[n \in 0..Len(claves)] ==
            IF n = 0 THEN <<>>
            ELSE IF n = 1 THEN item(claves[1])
            ELSE unir[n - 1] \o <<",", " ">> \o item(claves[n])
    IN  <<"{">> \o unir[Len(claves)] \o <<"}">>

\* buscar_bloques comparing the criterion as typed with the lowered text
BuscarSinMinusculas(c, criterio) ==
    IF ~TodosSerializables(c) THEN [exc |-> "TypeError", res |-> <<>>]
    ELSE [exc |-> "",
          res |-> SelectSeq(c, LAMBDA b :
                      Contiene(Minusculas(JsonDumps(b.datos)), criterio))]

\* CadenaDeBloques.buscar_bloques: json.dumps raises TypeError at the first
\* block whose payload it cannot encode
buscar_bloques(c, criterio) ==
    IF ~TodosSerializables(c) THEN [exc |-> "TypeError", res |-> <<>>]
    ELSE [exc |-> "",
          res |-> SelectSeq(c, LAMBDA b :
                      Contiene(Minusculas(JsonDumps(b.datos)), Minusculas(criterio)))]

(***************************************************************************)
(* transaccion.py and blockchain_controller.py                             *)
(***************************************************************************)
\* Transaccion.to_dict of Transaccion(emisor, receptor, cantidad,
\* descripcion) built when datetime.now() reads t
TransaccionToDict(emisor, receptor, cantidad, descripcion, t) ==
    [emisor |-> emisor, receptor |-> receptor, cantidad |-> cantidad,
     descripcion |-> descripcion, timestamp |-> t]

\* agregar_bloque_con_transaccion appending before it validates
AgregaAntesDeValidar(c, r0, emisor, receptor, cantidad, descripcion, t1, t2) ==
    LET v == ValidadorValidar(ValidadorTransaccionEspecifico(emisor, receptor, cantidad))
        a == agregar_bloque(
                c, TransaccionToDict(emisor, receptor, cantidad, descripcion, t1), t2)
    IN  IF ~v.ok
        THEN [ok |-> FALSE, msg |-> v.msg, cadena |-> a.cadena, append |-> TRUE,
              reloj |-> t2]
        ELSE IF a.ok
        THEN [ok |-> TRUE, msg |-> Msg("Bloque agregado exitosamente", -1),
              cadena |-> a.cadena, append |-> TRUE, reloj |-> t2]
        ELSE [ok |-> FALSE, msg |-> Msg("Error al agregar el bloque", -1),
              cadena |-> a.cadena, append |-> TRUE, reloj |-> t2]

\* BlockchainController.agregar_bloque_con_transaccion, up to the
\* notification: the value returned, the new chain, whether
\* CadenaDeBloques.agregar_bloque was called and the last clock reading;
\* t1 is read by Transaccion.__init__, t2 by Bloque.crear_bloque
agregar_bloque_con_transaccion(c, r0, emisor, receptor, cantidad, descripcion, t1, t2) ==
    LET v == ValidadorValidar(ValidadorTransaccionEspecifico(emisor, receptor, cantidad))
    IN  IF ~v.ok
        THEN [ok |-> FALSE, msg |-> v.msg, cadena |-> c, append |-> FALSE, reloj |-> r0]
        ELSE IF CompararFalla(cantidad)
        THEN [ok |-> FALSE, msg |-> Msg("Error inesperado", -1), cadena |-> c,
              append |-> FALSE, reloj |-> r0]
        ELSE IF MenorIgualCero(cantidad)
        THEN [ok |-> FALSE, msg |-> Msg("La cantidad debe ser mayor a cero", -1),
              cadena |-> c, append |-> FALSE, reloj |-> r0]
        ELSE LET a == agregar_bloque(
                        c, TransaccionToDict(emisor, receptor, cantidad, descripcion, t1), t2)
             IN  IF a.ok
                 THEN [ok |-> TRUE, msg |-> Msg("Bloque agregado exitosamente", -1),
                       cadena |-> a.cadena, append |-> TRUE, reloj |-> t2]
                 ELSE [ok |-> FALSE, msg |-> Msg("Error al agregar el bloque", -1),
                       cadena |-> a.cadena, append |-> TRUE, reloj |-> t2]

\* the payload BlockchainController.simular_ataque writes
DatosAtaque ==
    [mensaje |-> "DATOS MODIFICADOS", atacante |-> "Hacker",
     nota |-> "Este bloque fue modificado para demostrar inmutabilidad"]

\* agregar_observador without the "callback not in" test
AgregarObservadorSinGuarda(lista, callback) == Append(lista, callback)

\* BlockchainController.agregar_observador
agregar_observador(lista, callback) ==
    IF \E i \in 1..Len(lista) : lista[i] = callback THEN lista
    ELSE Append(lista, callback)

\* BlockchainController.remover_observador: list.remove drops the first match
remover_observador(lista, callback) ==
    IF \E i \in 1..Len(lista) : lista[i] = callback
    THEN LET p == CHOOSE i \in 1..Len(lista) :
                      lista[i] = callback /\ \A j \in 1..(i - 1) : lista[j] # callback
         IN  SubSeq(lista, 1, p - 1) \o SubSeq(lista, p + 1, Len(lista))
    ELSE lista

(***************************************************************************)
(* State machine                                                           *)
(***************************************************************************)
Nada == [op |-> "nada", ok |-> FALSE, msg |-> Msg("", -1), args |-> <<>>,
         append |-> FALSE]

Ultima(op, ok, msg, args, append) ==
    [op |-> op, ok |-> ok, msg |-> msg, args |-> args, append |-> append]

Init ==
    /\ cadena = <<crear_bloque_genesis(0)>>
    /\ reloj = 0
    /\ observadores = <<>>
    /\ pc = "idle"
    /\ it = 0
    /\ pend = Nada
    /\ inicio = <<>>
    /\ llamados = <<>>
    /\ ultima = Ultima("init", TRUE, Msg("", -1), <<>>, FALSE)
    /\ lanzaron = {}
    /\ instancia = [creadas |-> 1, inicializado |-> TRUE]

\* the process before anything touched CadenaDeBloques
InitSinInstancia ==
    /\ cadena = <<>>
    /\ reloj = 0
    /\ observadores = <<>>
    /\ pc = "idle"
    /\ it = 0
    /\ pend = Nada
    /\ inicio = <<>>
    /\ llamados = <<>>
    /\ ultima = Ultima("init", TRUE, Msg("", -1), <<>>, FALSE)
    /\ lanzaron = {}
    /\ instancia = [creadas |-> 0, inicializado |-> FALSE]

\* the readings datetime.now() can give after the last one
Lecturas == reloj..MaxReloj

\* an operation that returns u without notifying
Retornar(u) ==
    /\ ultima' = u
    /\ llamados' = <<>>
    /\ inicio' = <<>>
    /\ lanzaron' = {}
    /\ UNCHANGED <<observadores, pc, it, pend, instancia>>

\* self.notificar_observadores() followed by return u: the for loop over an
\* empty list ends at once, otherwise the observers run one by one
NotificarYRetornar(u) ==
    /\ llamados' = <<>>
    /\ inicio' = observadores
    /\ lanzaron' = {}
    /\ UNCHANGED <<observadores, instancia>>
    /\ IF observadores = <<>>
       THEN ultima' = u /\ UNCHANGED <<pc, it, pend>>
       ELSE pc' = "notificando" /\ it' = 0 /\ pend' = u /\ UNCHANGED ultima

\* ---- calls on CadenaDeBloques.get_instance() ----

AgregarBloque(datos, t) ==
    /\ pc = "idle"
    /\ Len(cadena) < MaxBloques
    /\ LET a == agregar_bloque(cadena, datos, t)
       IN  /\ cadena' = a.cadena
           /\ reloj' = t
           /\ Retornar(Ultima("agregar_bloque", a.ok, Msg(a.det, -1), <<>>, TRUE))

SimularAtaque(indice_bloque, nuevos_datos) ==
    /\ pc = "idle"
    /\ LET a == simular_ataque(cadena, indice_bloque, nuevos_datos)
       IN  /\ cadena' = a.cadena
           /\ UNCHANGED reloj
           /\ Retornar(Ultima("simular_ataque", a.ok, Msg("", indice_bloque),
                              <<indice_bloque>>, FALSE))

ImportarJson(f) ==
    /\ pc = "idle"
    /\ LET a == importar_json(cadena, f)
       IN  /\ cadena' = a.cadena
           /\ UNCHANGED reloj
           /\ Retornar(Ultima("importar_json", a.ok, Msg(a.det, -1), <<f.origen>>, FALSE))

ExportarJson ==
    /\ pc = "idle"
    /\ UNCHANGED <<cadena, reloj>>
    /\ Retornar(Ultima("exportar_json", exportar_json(cadena), Msg("", -1), <<>>, FALSE))

Reiniciar(t) ==
    /\ pc = "idle"
    /\ cadena' = reiniciar(t)
    /\ reloj' = t
    /\ Retornar(Ultima("reiniciar", TRUE, Msg("", -1),
                        <<Len(cadena), \A i \in 1..Len(cadena) : PasaValidar(cadena[i])>>,
                        FALSE))

\* validar_cadena that recomputes the stored hash of the blocks it finds bad
ValidarCadenaRepara ==
    /\ pc = "idle"
    /\ cadena' = [i \in 1..Len(cadena) |->
                    IF PasaValidar(cadena[i]) \/ ~EsSerializable(cadena[i].datos)
                    THEN cadena[i]
                    ELSE [cadena[i] EXCEPT !.hash_actual = calcular_hash(cadena[i])]]
    /\ UNCHANGED reloj
    /\ LET v == validar_cadena(cadena)
           n == IF ultima.op = "validar_cadena" THEN ultima.args[1] + 1 ELSE 1
       IN  /\ n <= MaxRepeticiones
           /\ Retornar(Ultima("validar_cadena", v.ok, v.msg, <<n, v.exc>>, FALSE))

\* validar_cadena(), also as BlockchainController.validar_cadena, which only
\* delegates; it assigns nothing. args counts the consecutive calls and tells
\* whether the call raised instead of returning.
ValidarCadena ==
    /\ pc = "idle"
    /\ UNCHANGED <<cadena, reloj>>
    /\ LET v == validar_cadena(cadena)
           n == IF ultima.op = "validar_cadena" THEN ultima.args[1] + 1 ELSE 1
       IN  /\ n <= MaxRepeticiones
           /\ Retornar(Ultima("validar_cadena", v.ok, v.msg, <<n, v.exc>>, FALSE))

\* obtener_estadisticas(); an exception reaches the caller
Estadisticas ==
    /\ pc = "idle"
    /\ UNCHANGED <<cadena, reloj>>
    /\ LET e == obtener_estadisticas(cadena)
       IN  Retornar(Ultima("obtener_estadisticas", e.exc = "", Msg(e.exc, -1),
                           <<e.total_bloques, e.es_valida, e.tiempo>>, FALSE))

\* buscar_bloques(criterio): the result is recorded as the indices of the
\* blocks returned, in the order returned
Buscar(criterio) ==
    /\ pc = "idle"
    /\ UNCHANGED <<cadena, reloj>>
    /\ LET b == buscar_bloques(cadena, criterio)
       IN  Retornar(Ultima("buscar_bloques", b.exc = "", Msg(b.exc, -1),
                           <<criterio, [i \in 1..Len(b.res) |-> b.res[i].indice]>>,
                           FALSE))

\* ValidadorCadena().validar(datos) on a list of dicts, as importar_json
\* calls it on what json.load gave
ValidarLista(datos) ==
    /\ pc = "idle"
    /\ UNCHANGED <<cadena, reloj>>
    /\ LET v == ValidadorValidar(ValidadorCadenaEspecifico(datos))
       IN  Retornar(Ultima("validador_cadena", v.ok, v.msg, <<datos>>, FALSE))

\* vs[1].validar(datos) on the pipeline vs, the rules deciding as reglas says
ValidarTuberia(vs, reglas) ==
    /\ pc = "idle"
    /\ UNCHANGED <<cadena, reloj>>
    /\ LET r == Validar(Encadenar(vs), reglas, vs[1])
       IN  Retornar(Ultima("validar", r.ok, r.msg, <<vs, reglas, r.invocados>>, FALSE))

\* A caller changes, in place, the dict it got as
\* obtener_cadena_completa()[indice]["datos"]: to_dict hands out the block's
\* own __datos object, so the block's payload changes with it.
MutarDatosObtenidos(indice, contenido) ==
    /\ pc = "idle"
    /\ indice \in 0..(Len(cadena) - 1)
    /\ contenido # cadena[indice + 1].datos
    /\ cadena' = [cadena EXCEPT ![indice + 1].datos = contenido]
    /\ UNCHANGED reloj
    /\ Retornar(Ultima("mutar_datos_obtenidos", TRUE, Msg("", indice), <<indice>>, FALSE))

\* ---- construction ----

\* an operation that leaves the controller's observers alone and returns u
RetornarDe(u) ==
    /\ ultima' = u
    /\ UNCHANGED <<observadores, pc, it, pend, inicio, llamados, lanzaron>>

\* CadenaDeBloques()
Construir(t) ==
    /\ pc = "idle"
    /\ LET r == Constructor(instancia, cadena, t)
       IN  /\ instancia' = r.inst
           /\ cadena' = r.cadena
           /\ reloj' = IF instancia.inicializado THEN reloj ELSE t
           /\ RetornarDe(Ultima("construir", TRUE, Msg("", -1), <<Len(r.cadena)>>, FALSE))

\* CadenaDeBloques.get_instance()
GetInstance(t) ==
    /\ pc = "idle"
    /\ LET r == get_instance(instancia, cadena, t)
       IN  /\ instancia' = r.inst
           /\ cadena' = r.cadena
           /\ reloj' = IF instancia.inicializado THEN reloj ELSE t
           /\ RetornarDe(Ultima("get_instance", TRUE, Msg("", -1), <<Len(r.cadena)>>, FALSE))

\* BlockchainController(): its __init__ calls get_instance() and starts with
\* its own empty observer list; args is the length the new controller's
\* obtener_longitud() gives
CrearControlador(t) ==
    /\ pc = "idle"
    /\ LET r == get_instance(instancia, cadena, t)
       IN  /\ instancia' = r.inst
           /\ cadena' = r.cadena
           /\ reloj' = IF instancia.inicializado THEN reloj ELSE t
           /\ RetornarDe(Ultima("crear_controlador", TRUE, Msg("", -1),
                                <<Len(r.cadena)>>, FALSE))

\* ---- calls on a BlockchainController ----

CtlAgregarConTransaccion(emisor, receptor, cantidad, descripcion, t1, t2) ==
    /\ pc = "idle"
    /\ Len(cadena) < MaxBloques
    /\ LET a == agregar_bloque_con_transaccion(
                    cadena, reloj, emisor, receptor, cantidad, descripcion, t1, t2)
           u == Ultima("agregar_bloque_con_transaccion", a.ok, a.msg,
                       <<emisor, receptor, cantidad, descripcion>>, a.append)
       IN  /\ cadena' = a.cadena
           /\ reloj' = a.reloj
           /\ IF a.ok THEN NotificarYRetornar(u) ELSE Retornar(u)

CtlAgregarPersonalizado(datos, t) ==
    /\ pc = "idle"
    /\ Len(cadena) < MaxBloques
    /\ LET a == agregar_bloque(cadena, datos, t)
       IN  /\ cadena' = a.cadena
           /\ reloj' = t
           /\ IF a.ok
              THEN NotificarYRetornar(Ultima("agregar_bloque_personalizado", TRUE,
                        Msg("Bloque agregado exitosamente", -1), <<>>, TRUE))
              ELSE Retornar(Ultima("agregar_bloque_personalizado", FALSE,
                        Msg("Error al agregar el bloque", -1), <<>>, TRUE))

CtlImportar(f) ==
    /\ pc = "idle"
    /\ LET a == importar_json(cadena, f)
       IN  /\ cadena' = a.cadena
           /\ UNCHANGED reloj
           /\ IF a.ok
              THEN NotificarYRetornar(Ultima("importar_blockchain", TRUE,
                        Msg("Blockchain importada", -1), <<f.origen>>, FALSE))
              ELSE Retornar(Ultima("importar_blockchain", FALSE,
                        Msg("Error al importar blockchain", -1), <<f.origen>>, FALSE))

\* BlockchainController.obtener_cadena_completa, which only delegates
CtlObtenerCadena ==
    /\ pc = "idle"
    /\ UNCHANGED <<cadena, reloj>>
    /\ Retornar(Ultima("obtener_cadena_completa", TRUE, Msg("", -1),
                        <<obtener_cadena_completa(cadena)>>, FALSE))

\* BlockchainController.exportar_blockchain
CtlExportar ==
    /\ pc = "idle"
    /\ UNCHANGED <<cadena, reloj>>
    /\ IF exportar_json(cadena)
       THEN Retornar(Ultima("exportar_blockchain", TRUE,
                            Msg("Blockchain exportada", -1), <<>>, FALSE))
       ELSE Retornar(Ultima("exportar_blockchain", FALSE,
                            Msg("Error al exportar blockchain", -1), <<>>, FALSE))

\* simular_ataque notifying the observers whatever the chain answered
CtlSimularAtaqueNotificaSiempre(indice_bloque) ==
    /\ pc = "idle"
    /\ LET a == simular_ataque(cadena, indice_bloque, DatosAtaque)
       IN  /\ cadena' = a.cadena
           /\ UNCHANGED reloj
           /\ NotificarYRetornar(
                 IF a.ok
                 THEN Ultima("ctl_simular_ataque", TRUE,
                        Msg("Bloque modificado. La cadena ahora es invalida.", indice_bloque),
                        <<indice_bloque>>, FALSE)
                 ELSE Ultima("ctl_simular_ataque", FALSE,
                        Msg("No se pudo modificar el bloque", -1), <<indice_bloque>>, FALSE))

CtlSimularAtaque(indice_bloque) ==
    /\ pc = "idle"
    /\ LET a == simular_ataque(cadena, indice_bloque, DatosAtaque)
       IN  /\ cadena' = a.cadena
           /\ UNCHANGED reloj
           /\ IF a.ok
              THEN NotificarYRetornar(Ultima("ctl_simular_ataque", TRUE,
                        Msg("Bloque modificado. La cadena ahora es invalida.", indice_bloque),
                        <<indice_bloque>>, FALSE))
              ELSE Retornar(Ultima("ctl_simular_ataque", FALSE,
                        Msg("No se pudo modificar el bloque", -1), <<indice_bloque>>, FALSE))

CtlReiniciar(t) ==
    /\ pc = "idle"
    /\ cadena' = reiniciar(t)
    /\ reloj' = t
    /\ NotificarYRetornar(Ultima("reiniciar_blockchain", TRUE,
            Msg("Blockchain reiniciada exitosamente", -1), <<>>, FALSE))

AgregarObservador(callback) ==
    /\ pc = "idle"
    /\ observadores' = agregar_observador(observadores, callback)
    /\ ultima' = Ultima("agregar_observador", TRUE, Msg("", -1), <<callback>>, FALSE)
    /\ UNCHANGED <<cadena, reloj, pc, it, pend, inicio, llamados, lanzaron, instancia>>

RemoverObservador(callback) ==
    /\ pc = "idle"
    /\ observadores' = remover_observador(observadores, callback)
    /\ ultima' = Ultima("remover_observador", TRUE, Msg("", -1), <<callback>>, FALSE)
    /\ UNCHANGED <<cadena, reloj, pc, it, pend, inicio, llamados, lanzaron, instancia>>

\* ---- notificar_observadores: for observador in self.__observadores ----

\* One iteration: the list iterator yields the item at index it and
\* advances; the observer runs. What it does is its own code: it returns,
\* raises (caught and logged), or first registers or unregisters a callback
\* on the controller (and then returns, or raises).
NotificarPaso(conducta) ==
    /\ pc = "notificando"
    /\ it < Len(observadores)
    /\ it' = it + 1
    /\ llamados' = Append(llamados, observadores[it + 1])
    /\ observadores' =
          CASE conducta[1] = "agrega" -> agregar_observador(observadores, conducta[2])
            [] conducta[1] \in {"remueve", "remueve y lanza"} ->
                    remover_observador(observadores, conducta[2])
            [] OTHER -> observadores
    /\ lanzaron' = IF conducta[1] \in {"lanza", "remueve y lanza"}
                   THEN lanzaron \cup {Len(llamados) + 1}
                   ELSE lanzaron
    /\ UNCHANGED <<cadena, reloj, pc, pend, inicio, ultima, instancia>>

\* The iterator is exhausted: the loop ends and the operation returns.
NotificarFin ==
    /\ pc = "notificando"
    /\ it >= Len(observadores)
    /\ pc' = "idle"
    /\ it' = 0
    /\ ultima' = pend
    /\ pend' = Nada
    /\ UNCHANGED <<cadena, reloj, observadores, inicio, llamados, lanzaron, instancia>>

(***************************************************************************)
(* Inputs                                                                  *)
(***************************************************************************)
\* payloads a caller passes to agregar_bloque / simular_ataque
DatosPersonalizados == {[nota |-> "a"], [nota |-> NoSerial]}

\* the file exportar_json writes for chain c
Exportado(c) == JsonDump(obtener_cadena_completa(c))

QuitarCampo(texto, i, k) ==
    [texto EXCEPT ![i] = SelectSeq(@, LAMBDA par : par[1] # k)]

PonerCampo(texto, i, k, v) ==
    [texto EXCEPT ![i] = [j \in 1..Len(@) |-> IF @[j][1] = k THEN <<k, v>> ELSE @[j]]]

\* The files importar_json may be given, each named by a triple: files that
\* cannot be read or parsed, the empty list, a genesis-only chain written
\* elsewhere, the file just exported from the chain, and that file edited
\* by hand (a field removed, a payload, hash or index changed, the last
\* records cut off).
Ediciones(c) ==
    { <<"noexiste", 0, "">>, <<"malformado", 0, "">>, <<"nolista", 0, "">>,
      <<"vacia", 0, "">>, <<"genesis", 0, "">> }
    \cup (IF TodosSerializables(c)
          THEN {<<"exportado", 0, "">>}
               \cup {<<"quitar", i, CamposBloque[k]>> :
                        i \in 1..Len(c), k \in 1..Len(CamposBloque)}
               \cup {<<e, i, "">> : e \in {"datos", "hash", "indice"}, i \in 1..Len(c)}
               \cup {<<"truncar", n, "">> : n \in 1..(Len(c) - 1)}
          ELSE {})

Archivo(c, e) ==
    CASE e[1] \in {"noexiste", "malformado", "nolista"} ->
            [tipo |-> e[1], texto |-> <<>>, origen |-> e[1]]
      [] e[1] = "vacia" -> [tipo |-> "json", texto |-> <<>>, origen |-> "vacia"]
      [] e[1] = "genesis" ->
            [tipo |-> "json", texto |-> Exportado(<<crear_bloque_genesis(0)>>),
             origen |-> "genesis"]
      [] e[1] = "exportado" ->
            [tipo |-> "json", texto |-> Exportado(c), origen |-> "exportado"]
      [] e[1] = "quitar" ->
            [tipo |-> "json", texto |-> QuitarCampo(Exportado(c), e[2], e[3]),
             origen |-> "sin campo"]
      [] e[1] = "datos" ->
            [tipo |-> "json", texto |-> PonerCampo(Exportado(c), e[2], "datos", DatosAtaque),
             origen |-> "editado"]
      [] e[1] = "hash" ->
            [tipo |-> "json", texto |-> PonerCampo(Exportado(c), e[2], "hash_actual", HashFalso),
             origen |-> "editado"]
      [] e[1] = "indice" ->
            [tipo |-> "json", texto |-> PonerCampo(Exportado(c), e[2], "indice", e[2] + 1),
             origen |-> "editado"]
      [] e[1] = "fecha" ->
            [tipo |-> "json", texto |-> PonerCampo(Exportado(c), e[2], "timestamp", FechaNoIso),
             origen |-> "fecha editada"]
      [] e[1] = "truncar" ->
            [tipo |-> "json", texto |-> SubSeq(Exportado(c), 1, e[2]), origen |-> "editado"]

Emisores == {"", "Alice"}
Receptores == {"", "Bob"}
Observadores == 1..NumObs
Conductas ==
    {<<"retorna", 0>>, <<"lanza", 0>>}
    \cup {<<a, o>> : a \in {"agrega", "remueve"}, o \in Observadores}

\* a callback that unregisters an observer and then fails
ConductasConFallo ==
    {<<"retorna", 0>>, <<"lanza", 0>>}
    \cup {<<a, o>> : a \in {"remueve", "remueve y lanza"}, o \in Observadores}

\* search criteria: the empty text, a name in lower and in upper case, a
\* name as written, a word of the genesis payload, a word of the attack
\* payload, a text no payload holds, a text that spans a key and a value
Criterios ==
    { <<>>,
      <<"a", "l", "i", "c", "e">>,
      <<"A", "L", "I", "C", "E">>,
      <<"B", "o", "b">>,
      <<"g", "é", "n", "e", "s", "i", "s">>,
      <<"M", "O", "D", "I", "F">>,
      <<"z", "z">>,
      <<"r", "\"", ":", " ", "\"", "b">> }

\* What may be wrong with a block of a list handed to validar_cadena: its
\* index (ind FALSE), its link to the block before it (enl FALSE), its
\* payload, changed after the hash was computed (dat FALSE).
Defectos == [ind : BOOLEAN, enl : BOOLEAN, dat : BOOLEAN]

\* the list of blocks with the defects d[1], d[2], ...: each block is built
\* by Bloque, so its own hash matches unless its payload was changed later
CadenaCon(d) ==
    LET C[p \in 1..Len(d)] ==
            LET previo == IF p = 1 THEN Cero ELSE C[p - 1].hash_actual
                b == Bloque(IF d[p].ind THEN p - 1 ELSE p % Len(d), 0,
                            IF p = 1 THEN DatosGenesis ELSE [nota |-> "a"],
                            IF d[p].enl THEN previo ELSE HashFalso, 0)
            IN  IF d[p].dat THEN b ELSE ModificarDatos(b, DatosAtaque)
    IN  [p \in 1..Len(d) |-> C[p]]

\* every list of at most MaxBloques blocks, sound or defective
CadenasArbitrarias ==
    {CadenaCon(d) : d \in UNION {[1..n -> Defectos] : n \in 0..MaxBloques}}

\* How a record of a list differs from the record of a sound chain: not at
\* all, in its index, in its link, in both, or by a missing key.
Variantes ==
    {"bien", "indice", "enlace", "indice y enlace",
     "sin indice", "sin hash_previo", "sin hash_actual"}

\* the records of the sound chain of n blocks
RegistrosSanos(n) ==
    LET C[p \in 1..n] ==
            IF p = 1 THEN crear_bloque_genesis(0)
            ELSE crear_bloque(p - 1, [nota |-> "a"], C[p - 1].hash_actual, 0)
    IN  [p \in 1..n |-> to_dict(C[p])]

SinClave(r, k) == [c \in DOMAIN r \ {k} |-> r[c]]

\* the record r with the variant v
Variar(r, v) ==
    CASE v = "bien" -> r
      [] v = "indice" -> [r EXCEPT !.indice = @ + 1]
      [] v = "enlace" -> [r EXCEPT !.hash_previo = HashFalso]
      [] v = "indice y enlace" -> [r EXCEPT !.indice = @ + 1, !.hash_previo = HashFalso]
      [] v = "sin indice" -> SinClave(r, "indice")
      [] v = "sin hash_previo" -> SinClave(r, "hash_previo")
      [] v = "sin hash_actual" -> SinClave(r, "hash_actual")

\* the lists of at most MaxBloques records handed to ValidadorCadena
ListasDeRegistros ==
    UNION { { [p \in 1..n |-> Variar(RegistrosSanos(n)[p], vs[p])] :
                vs \in [1..n -> Variantes] } : n \in 0..MaxBloques }

\* the linear pipelines: one or more distinct validators in a row
Tuberias ==
    {vs \in UNION {[1..n -> Validadores] : n \in 1..MaxValidadores} :
        \A i, j \in 1..Len(vs) : i # j => vs[i] # vs[j]}

\* who sends the transactions of the search specification
EmisoresBuscados == {"Alice", "Bob"}

(***************************************************************************)
(* Specifications                                                          *)
(***************************************************************************)
\* the clock advances between two operations
Tic ==
    /\ pc = "idle"
    /\ reloj < MaxReloj
    /\ reloj' = reloj + 1
    /\ UNCHANGED <<cadena, observadores, pc, it, pend, inicio, llamados, ultima,
                   lanzaron, instancia>>

\* the chain, driven through CadenaDeBloques.get_instance()
NextCadena ==
    \/ \E i \in 0..(Len(cadena) - 1) : MutarDatosObtenidos(i, DatosAtaque)
    \/ \E d \in DatosPersonalizados : AgregarBloque(d, reloj)
    \/ \E i \in -1..Len(cadena), d \in {DatosAtaque, [nota |-> NoSerial]} :
            SimularAtaque(i, d)
    \/ \E i \in 0..(Len(cadena) - 1) : SimularAtaque(i, cadena[i + 1].datos)
    \/ \E e \in Ediciones(cadena) : ImportarJson(Archivo(cadena, e))
    \/ ExportarJson
    \/ Reiniciar(reloj)

SpecCadena == Init /\ [][NextCadena]_vars

\* nothing but appends, directly and through a controller
NextAgregar ==
    \/ Tic
    \/ \E d \in DatosPersonalizados : AgregarBloque(d, reloj)
    \/ \E d \in DatosPersonalizados : CtlAgregarPersonalizado(d, reloj)
    \/ \E ca \in Cantidades, t2 \in Lecturas :
            CtlAgregarConTransaccion("Alice", "Bob", ca, "", reloj, t2)

SpecAgregar == Init /\ [][NextAgregar]_vars

\* a controller with no observer registered, and the clock
NextControlador ==
    \/ Tic
    \/ \E em \in Emisores, re \in Receptores, ca \in Cantidades, t2 \in Lecturas :
            CtlAgregarConTransaccion(em, re, ca, "", reloj, t2)
    \/ \E d \in DatosPersonalizados : CtlAgregarPersonalizado(d, reloj)
    \/ CtlReiniciar(reloj)

SpecControlador == Init /\ [][NextControlador]_vars

\* a controller and its observers
NextObservadores ==
    \/ \E o \in Observadores : AgregarObservador(o)
    \/ \E o \in Observadores : RemoverObservador(o)
    \/ \E c \in Conductas : NotificarPaso(c)
    \/ NotificarFin
    \/ \E em \in Emisores : CtlAgregarConTransaccion(em, "Bob", <<"num", 2>>, "", reloj, reloj)
    \/ \E d \in DatosPersonalizados : CtlAgregarPersonalizado(d, reloj)
    \/ \E i \in {-1, 0} : CtlSimularAtaque(i)
    \/ \E e \in {<<"noexiste", 0, "">>, <<"genesis", 0, "">>} :
            CtlImportar(Archivo(cadena, e))
    \/ CtlReiniciar(reloj)

SpecObservadores == Init /\ [][NextObservadores]_vars

\* payloads written by simular_ataque: the controller's, one that restores
\* what agregar_bloque was given, and one json cannot encode
DatosDeAtaque == {DatosAtaque, [nota |-> "a"], [nota |-> NoSerial]}

\* the chain and its read paths
NextLectura ==
    \/ \E d \in DatosPersonalizados : AgregarBloque(d, reloj)
    \/ \E i \in 0..(Len(cadena) - 1), d \in DatosDeAtaque : SimularAtaque(i, d)
    \/ Reiniciar(reloj)
    \/ ValidarCadena

SpecLectura == Init /\ [][NextLectura]_vars

\* files whose records carry a timestamp that is no ISO date
EdicionesFecha(c) ==
    IF TodosSerializables(c) THEN {<<"fecha", i, "">> : i \in 1..Len(c)} ELSE {}

\* a controller without observers: writes, imports and queries
NextConsultas ==
    \/ \E d \in DatosPersonalizados : CtlAgregarPersonalizado(d, reloj)
    \/ \E i \in -1..Len(cadena) : CtlSimularAtaque(i)
    \/ \E e \in {<<"noexiste", 0, "">>, <<"exportado", 0, "">>} \cup EdicionesFecha(cadena) :
            CtlImportar(Archivo(cadena, e))
    \/ CtlReiniciar(reloj)
    \/ ValidarCadena
    \/ Estadisticas

SpecConsultas == Init /\ [][NextConsultas]_vars

\* constructions and accesses of the chain, from a process that has none
NextSingleton ==
    \/ Tic
    \/ Construir(reloj)
    \/ GetInstance(reloj)
    \/ CrearControlador(reloj)
    \/ instancia.inicializado /\ \E d \in DatosPersonalizados : AgregarBloque(d, reloj)
    \/ instancia.inicializado /\ \E d \in DatosPersonalizados :
            CtlAgregarPersonalizado(d, reloj)
    \/ instancia.inicializado /\ \E i \in 0..(Len(cadena) - 1) :
            SimularAtaque(i, DatosAtaque)

SpecSingleton == InitSinInstancia /\ [][NextSingleton]_vars

\* attacks in and out of range, on the chain and through a controller that
\* has observers
NextAtaque ==
    \/ \E o \in Observadores : AgregarObservador(o)
    \/ NotificarPaso(<<"retorna", 0>>)
    \/ NotificarFin
    \/ CtlAgregarPersonalizado([nota |-> "a"], reloj)
    \/ \E i \in -1..Len(cadena) : CtlSimularAtaque(i)
    \/ \E i \in -1..Len(cadena) : SimularAtaque(i, DatosAtaque)

SpecAtaque == Init /\ [][NextAtaque]_vars

\* registration and unregistration, between and during notification rounds
NextRegistro ==
    \/ \E o \in Observadores : AgregarObservador(o)
    \/ \E o \in Observadores : RemoverObservador(o)
    \/ \E c \in Conductas : NotificarPaso(c)
    \/ NotificarFin
    \/ CtlReiniciar(reloj)

SpecRegistro == Init /\ [][NextRegistro]_vars

\* a controller whose observers may fail
NextFallos ==
    \/ \E o \in Observadores : AgregarObservador(o)
    \/ \E c \in ConductasConFallo : NotificarPaso(c)
    \/ NotificarFin
    \/ \E d \in DatosPersonalizados : CtlAgregarPersonalizado(d, reloj)
    \/ \E i \in {-1, 0} : CtlSimularAtaque(i)
    \/ CtlReiniciar(reloj)

SpecFallos == Init /\ [][NextFallos]_vars

\* searches over chains of transactions, custom payloads and attacked blocks
NextBuscar ==
    \/ \E em \in EmisoresBuscados :
          CtlAgregarConTransaccion(em, "Bob", <<"num", 2>>, "", reloj, reloj)
    \/ \E i \in 0..(Len(cadena) - 1) : CtlSimularAtaque(i)
    \/ SimularAtaque(0, [nota |-> NoSerial])
    \/ \E criterio \in Criterios : Buscar(criterio)

SpecBuscar == Init /\ [][NextBuscar]_vars

\* validar_cadena as a function of the list self.__cadena holds: any list
InitValidar ==
    /\ cadena \in CadenasArbitrarias
    /\ reloj = 0
    /\ observadores = <<>>
    /\ pc = "idle"
    /\ it = 0
    /\ pend = Nada
    /\ inicio = <<>>
    /\ llamados = <<>>
    /\ ultima = Ultima("init", TRUE, Msg("", -1), <<>>, FALSE)
    /\ lanzaron = {}
    /\ instancia = [creadas |-> 1, inicializado |-> TRUE]

\* validar_cadena applied to any list of blocks
NextValidar == ValidarCadena

SpecValidar == InitValidar /\ [][NextValidar]_vars

\* a process about to make one call with the arguments in entradas
InitCon(entradas) ==
    /\ cadena = <<crear_bloque_genesis(0)>>
    /\ reloj = 0
    /\ observadores = <<>>
    /\ pc = "idle"
    /\ it = 0
    /\ pend = Nada
    /\ inicio = <<>>
    /\ llamados = <<>>
    /\ ultima \in {Ultima("entrada", TRUE, Msg("", -1), e, FALSE) : e \in entradas}
    /\ lanzaron = {}
    /\ instancia = [creadas |-> 1, inicializado |-> TRUE]

\* ValidadorCadena applied to lists of records
NextValidador == ultima.op = "entrada" /\ ValidarLista(ultima.args[1])

SpecValidador ==
    InitCon({<<datos>> : datos \in ListasDeRegistros}) /\ [][NextValidador]_vars

\* validations through pipelines of validators
NextTuberia ==
    ultima.op = "entrada" /\ ValidarTuberia(ultima.args[1], ultima.args[2])

SpecTuberia ==
    InitCon(Tuberias \X [Validadores -> BOOLEAN]) /\ [][NextTuberia]_vars

\* Notification rounds whose callbacks unregister observers or register
\* observers that were not registered when the round started: an observer
\* of the round that is registered when the round ends was then never
\* unregistered during it.
NextReentrada ==
    \/ \E o \in Observadores : AgregarObservador(o)
    \/ \E c \in Conductas :
          /\ c[1] = "agrega" => \A i \in DOMAIN inicio : inicio[i] # c[2]
          /\ NotificarPaso(c)
    \/ NotificarFin
    \/ CtlAgregarPersonalizado([nota |-> "a"], reloj)
    \/ CtlReiniciar(reloj)

SpecReentrada == Init /\ [][NextReentrada]_vars

\* a controller with observers: calls that succeed, calls that fail (a
\* rejected transaction, an append that fails, an import that fails, an
\* attack out of range) and the read paths
NextSilencio ==
    \/ \E o \in Observadores : AgregarObservador(o)
    \/ NotificarPaso(<<"retorna", 0>>)
    \/ NotificarFin
    \/ \E em \in Emisores, ca \in {<<"num", 2>>, <<"dec", 2>>} :
            CtlAgregarConTransaccion(em, "Bob", ca, "", reloj, reloj)
    \/ CtlAgregarPersonalizado([nota |-> NoSerial], reloj)
    \/ \E e \in {<<"noexiste", 0, "">>, <<"genesis", 0, "">>} :
            CtlImportar(Archivo(cadena, e))
    \/ \E i \in {-1, 0} : CtlSimularAtaque(i)
    \/ CtlObtenerCadena
    \/ ValidarCadena
    \/ Estadisticas
    \/ Buscar(<<>>)
    \/ CtlExportar

SpecSilencio == Init /\ [][NextSilencio]_vars

Next == NextCadena \/ NextAgregar \/ NextControlador \/ NextObservadores \/ NextFallos
        \/ NextRegistro \/ NextLectura \/ NextConsultas
        \/ NextSingleton \/ NextAtaque \/ NextBuscar

Spec == Init /\ [][Next]_vars

(***************************************************************************)
(* Properties                                                              *)
(***************************************************************************)
Ultimo(c) == c[Len(c)]
CadenaValida(c) == LET v == validar_cadena(c) IN ~v.exc /\ v.ok
OpsAgregar ==
    {"agregar_bloque", "agregar_bloque_personalizado", "agregar_bloque_con_transaccion"}

\* C1: starting from the genesis-only chain, after every successful append
\* of any sequence of appends, validar_cadena returns (True, ...).
C1_ValidaTrasAgregar ==
    (ultima.op \in OpsAgregar /\ ultima.ok) =>
        validar_cadena(cadena) = [exc |-> FALSE, ok |-> TRUE,
                                  msg |-> Msg("Validacion exitosa", -1)]

C1_Testigo ==
    /\ ultima.op = "agregar_bloque" /\ ultima.ok
    /\ Len(cadena) >= 3
    /\ CadenaValida(cadena)

\* C2: a block stops passing Bloque.validar only by a successful
\* simular_ataque on its own index: whenever a block of the chain fails
\* validar after a step, either the block at that position failed it before
\* the step or the step was simular_ataque on that index.
C2_SoloAtaqueCorrompe ==
    [][\A i \in 1..Len(cadena') :
          ~PasaValidar(cadena'[i]) =>
             \/ i <= Len(cadena) /\ ~PasaValidar(cadena[i])
             \/ ultima'.op = "simular_ataque" /\ ultima'.ok /\ ultima'.args = <<i - 1>>
      ]_vars

C4_ImportarFallidoNoCambia ==
    [][(ultima'.op = "importar_json" /\ ~ultima'.ok) => cadena' = cadena]_vars

C4_Testigo ==
    /\ ultima.op = "importar_json" /\ ~ultima.ok
    /\ ultima.args = <<"sin campo">> /\ ultima.msg.m = "excepcion"
    /\ Len(cadena) >= 2

C6_Estructura ==
    /\ Len(cadena) >= 1
    /\ \A i \in 1..Len(cadena) : cadena[i].indice = i - 1
    /\ cadena[1].hash_previo = Cero
    /\ \A i \in 2..Len(cadena) : cadena[i].hash_previo = cadena[i - 1].hash_actual
    /\ ValidadorValidar(ValidadorCadenaEspecifico(obtener_cadena_completa(cadena))).ok
    /\ ~CadenaValida(cadena) => \E i \in 1..Len(cadena) : ~PasaValidar(cadena[i])

C6_Testigo ==
    /\ Len(cadena) >= 3
    /\ ultima.op = "importar_json" /\ ultima.ok /\ ultima.args = <<"editado">>
    /\ ~PasaValidar(cadena[2])

\* C7: a successful agregar_bloque adds exactly one block at the end, whose
\* index is the former tail's index + 1 and whose hash_previo is the former
\* tail's stored hash, and leaves the earlier blocks as they were; a failed
\* one leaves the chain unchanged.
C7_AgregarUnBloque ==
    [][ultima'.op = "agregar_bloque" =>
          IF ultima'.ok
          THEN /\ Len(cadena') = Len(cadena) + 1
               /\ SubSeq(cadena', 1, Len(cadena)) = cadena
               /\ Ultimo(cadena').indice = Ultimo(cadena).indice + 1
               /\ Ultimo(cadena').hash_previo = Ultimo(cadena).hash_actual
          ELSE cadena' = cadena
      ]_vars

C7_Testigo ==
    /\ ultima.op = "agregar_bloque" /\ ultima.ok
    /\ Len(cadena) >= 3
    /\ ~PasaValidar(cadena[2])
    /\ cadena[3].hash_previo = cadena[2].hash_actual

\* the verdict of the transaction validator on the arguments of the last
\* agregar_bloque_con_transaccion call
VeredictoValidador ==
    ValidadorValidar(ValidadorTransaccionEspecifico(
        ultima.args[1], ultima.args[2], ultima.args[3]))

\* C8: whenever agregar_bloque_con_transaccion returns (False, message),
\* from the validator, from Transaccion or from the append, the chain is
\* the one before the call; and when the validator rejects the arguments
\* agregar_bloque is not called.
C8_ValidaPrimero ==
    [][ultima'.op = "agregar_bloque_con_transaccion" =>
          /\ ~ultima'.ok => cadena' = cadena
          /\ ~(VeredictoValidador.ok)' => (~ultima'.ok /\ ~ultima'.append)
      ]_vars

C8_Testigo ==
    /\ ultima.op = "agregar_bloque_con_transaccion" /\ ~ultima.ok
    /\ ultima.append
    /\ ultima.msg = Msg("Error al agregar el bloque", -1)
    /\ VeredictoValidador.ok
    /\ Len(cadena) >= 2

\* the amount, read as a number, is greater than zero
ParseaPositivo(c) == c[1] \in {"num", "dec", "str"} /\ c[2] > 0

\* C9: the transaction validator rejects exactly when emisor, receptor or
\* cantidad is empty or cantidad does not parse as a number greater than
\* zero; the message names the first offending field in the order emisor,
\* receptor, cantidad; a rejected call adds no block.
C9_RechazaExactamente ==
    ultima.op = "agregar_bloque_con_transaccion" =>
        LET emisor == ultima.args[1]
            receptor == ultima.args[2]
            cantidad == ultima.args[3]
            v == VeredictoValidador
        IN  /\ ~v.ok <=> (emisor = "" \/ receptor = "" \/ ~ParseaPositivo(cantidad))
            /\ ~v.ok =>
                  /\ ~ultima.ok /\ ultima.msg = v.msg
                  /\ v.msg.m =
                        IF emisor = "" THEN "El campo 'emisor' no puede estar vacio"
                        ELSE IF receptor = ""
                        THEN "El campo 'receptor' no puede estar vacio"
                        ELSE v.msg.m
                  /\ (emisor # "" /\ receptor # "") =>
                        v.msg.m \in {"El campo 'cantidad' no puede estar vacio",
                                     "La cantidad debe ser un numero valido",
                                     "La cantidad debe ser mayor a cero"}

Cuenta(sec, o) == Cardinality({i \in DOMAIN sec : sec[i] = o})
Posicion(sec, o) == CHOOSE i \in DOMAIN sec : sec[i] = o
OpsConNotificacion ==
    {"agregar_bloque_con_transaccion", "agregar_bloque_personalizado",
     "ctl_simular_ataque", "importar_blockchain", "reiniciar_blockchain"}

\* C10: when a successful state-changing controller operation returns,
\* every observer that was registered when it notified (and still is) has
\* been invoked exactly once, and the invocations follow registration order.
C10_TodosUnaVez ==
    (pc = "idle" /\ ultima.op \in OpsConNotificacion /\ ultima.ok) =>
        /\ \A i \in DOMAIN inicio :
              Cuenta(observadores, inicio[i]) > 0 => Cuenta(llamados, inicio[i]) = 1
        /\ \A i, j \in DOMAIN llamados :
              (i < j /\ Cuenta(inicio, llamados[i]) > 0 /\ Cuenta(inicio, llamados[j]) > 0)
                 => Posicion(inicio, llamados[i]) < Posicion(inicio, llamados[j])

\* C11: when a successful state-changing controller operation returns and
\* some observer raised during its notification, every observer registered
\* after the one that raised (and still registered) has been invoked, the
\* operation returned its success result and the chain it built is kept.
C11_FalloAislado ==
    (pc = "idle" /\ ultima.op \in OpsConNotificacion /\ ultima.ok /\ lanzaron # {}) =>
        \A p \in lanzaron :
            \A j \in DOMAIN inicio :
                (/\ Cuenta(inicio, llamados[p]) > 0
                 /\ j > Posicion(inicio, llamados[p])
                 /\ Cuenta(observadores, inicio[j]) > 0)
                => Cuenta(llamados, inicio[j]) > 0

SinDuplicados(lista) == \A i, j \in DOMAIN lista : lista[i] = lista[j] => i = j
SinElemento(lista, o) == SelectSeq(lista, LAMBDA x : x # o)

\* C12: the observer list never holds a callback twice, whatever sequence of
\* agregar_observador and remover_observador calls is made (between or
\* inside notification rounds); registering a registered callback leaves
\* the list as it is (the callback keeps its position), registering a new
\* one appends it, unregistering an unregistered callback leaves the list
\* as it is, and unregistering a registered one removes it and keeps the
\* order of the others.
C12_SinDuplicados ==
    [][/\ SinDuplicados(observadores')
       /\ (pc = "idle" /\ pc' = "idle" /\ ultima'.op = "agregar_observador") =>
             observadores' =
                IF Cuenta(observadores, ultima'.args[1]) > 0 THEN observadores
                ELSE Append(observadores, ultima'.args[1])
       /\ (pc = "idle" /\ pc' = "idle" /\ ultima'.op = "remover_observador") =>
             /\ Cuenta(observadores, ultima'.args[1]) = 0 => observadores' = observadores
             /\ observadores' = SinElemento(observadores, ultima'.args[1])
      ]_vars

C12_Testigo ==
    /\ ultima.op = "agregar_observador" /\ ultima.args = <<1>>
    /\ observadores = <<1, 2>>

\* C13: from any state, with a corrupted block or not, reiniciar leaves a
\* chain of exactly one block, with index 0, hash_previo "0" and the genesis
\* payload, and validar_cadena then returns (True, ...).
C13_ReiniciarDejaGenesis ==
    [][ultima'.op = "reiniciar" =>
          /\ Len(cadena') = 1
          /\ cadena'[1].indice = 0
          /\ cadena'[1].hash_previo = Cero
          /\ cadena'[1].datos = DatosGenesis
          /\ validar_cadena(cadena') =
                [exc |-> FALSE, ok |-> TRUE, msg |-> Msg("Validacion exitosa", -1)]
      ]_vars

C13_Testigo ==
    /\ ultima.op = "reiniciar"
    /\ ultima.args = <<3, FALSE>>
    /\ Len(cadena) = 1 /\ CadenaValida(cadena)

\* C14: validar_cadena leaves the chain as it is, returns what the chain's
\* blocks determine, and a call that follows another call with nothing in
\* between returns the same (ok, message) pair (or raises the same way).
C14_ValidarSoloInforma ==
    [][ultima'.op = "validar_cadena" =>
          /\ cadena' = cadena
          /\ (ultima.op = "validar_cadena" /\ ultima'.args[1] = ultima.args[1] + 1) =>
                /\ ultima'.ok = ultima.ok
                /\ ultima'.msg = ultima.msg
                /\ ultima'.args[2] = ultima.args[2]
      ]_vars

C14_Testigo ==
    /\ ultima.op = "validar_cadena" /\ ultima.args = <<2, FALSE>>
    /\ ~ultima.ok /\ ultima.msg = Msg("Bloque tiene hash invalido", 1)
    /\ Len(cadena) >= 2

\* the engine calls C15 lists besides simular_ataque
OpsSinReparacion ==
    {"agregar_bloque", "validar_cadena", "buscar_bloques", "exportar_json",
     "obtener_cadena_completa", "obtener_estadisticas"}

Excepciones == {"TypeError", "ValueError", "AttributeError"}
OpsControlador ==
    OpsConNotificacion
    \cup {"validar_cadena", "obtener_estadisticas", "buscar_bloques",
          "obtener_cadena_completa", "exportar_blockchain"}

\* C16: every call on the controller returns a result: none raises, in any
\* state, a state reached by importing a list ValidadorCadena accepts
\* included.
C16_NadaLanza ==
    ultima.op \in OpsControlador => ultima.msg.m \notin Excepciones

\* C17: when a caller changes a payload it received from
\* obtener_cadena_completa, the chain is untouched: obtener_cadena_completa
\* and validar_cadena give afterwards what they gave before.
C17_SinAlias ==
    [][ultima'.op = "mutar_datos_obtenidos" =>
          /\ obtener_cadena_completa(cadena') = obtener_cadena_completa(cadena)
          /\ validar_cadena(cadena') = validar_cadena(cadena)
      ]_vars

OpsDeAcceso == {"construir", "get_instance", "crear_controlador"}

\* C18: at most one CadenaDeBloques object is ever made; the first
\* construction or get_instance call leaves a chain holding the genesis
\* block only, and every later one (a new controller's included) leaves the
\* chain exactly as it was, so the blocks appended before are still there.
C18_Singleton ==
    [][/\ instancia'.creadas <= 1
       /\ ultima'.op \in OpsDeAcceso =>
             /\ instancia'.creadas = 1 /\ instancia'.inicializado
             /\ ultima'.args = <<Len(cadena')>>
             /\ IF instancia.inicializado
                THEN cadena' = cadena
                ELSE /\ Len(cadena') = 1
                     /\ cadena'[1] = crear_bloque_genesis(reloj')
      ]_vars

C18_Testigo ==
    /\ ultima.op = "crear_controlador" /\ ultima.args = <<3>>
    /\ Len(cadena) = 3
    /\ cadena[2].datos = DatosAtaque
    /\ instancia = [creadas |-> 1, inicializado |-> TRUE]

FueraDeRango(indice, c) == indice < 0 \/ indice >= Len(c)

\* C19: simular_ataque with an index below 0 or not below the chain length
\* returns False and changes no block; through the controller it returns
\* (False, message) at once, and no observer is invoked for it.
C19_FueraDeRango ==
    [][/\ (pc = "idle" /\ pc' = "idle" /\ ultima'.op = "simular_ataque"
           /\ FueraDeRango(ultima'.args[1], cadena)) =>
             (~ultima'.ok /\ cadena' = cadena)
       /\ (pc = "idle" /\ pc' = "idle" /\ ultima'.op = "ctl_simular_ataque"
           /\ FueraDeRango(ultima'.args[1], cadena)) =>
             /\ ~ultima'.ok
             /\ ultima'.msg = Msg("No se pudo modificar el bloque", -1)
             /\ cadena' = cadena
             /\ llamados' = <<>>
       /\ (pc' = "notificando" /\ pend'.op = "ctl_simular_ataque") =>
             ~FueraDeRango(pend'.args[1], cadena')
      ]_vars

C19_Testigo ==
    /\ pc = "idle"
    /\ ultima.op = "ctl_simular_ataque" /\ ~ultima.ok /\ ultima.args = <<-1>>
    /\ Len(observadores) = 2 /\ llamados = <<>>
    /\ Len(cadena) >= 2
    /\ CadenaValida(cadena)


\* two characters that are equal up to the case of the letter
MismaLetra(a, b) == a = b \/ <<a, b>> \in Cajas \/ <<b, a>> \in Cajas

\* sub occurs in texto, character by character, up to the case of the letters
ContieneSinCaja(texto, sub) ==
    \E i \in 0..(Len(texto) - Len(sub)) :
        \A j \in 1..Len(sub) : MismaLetra(texto[i + j], sub[j])

PasoReiniciar ==
    /\ ultima'.op \in {"reiniciar", "reiniciar_blockchain"}
    /\ (ultima' # ultima \/ cadena' # cadena)

\* C21: after a reset the hash of the new genesis block differs from the
\* hash of the genesis block the chain held before the reset.
C21_HashNuevoDistinto ==
    [][PasoReiniciar => cadena'[1].hash_actual # cadena[1].hash_actual]_vars

\* the positions of the blocks of c whose own validar fails
Malos(c) == {p \in 1..Len(c) : ~PasaValidar(c[p])}
Primero(S) == CHOOSE p \in S : \A q \in S : p <= q

IndiceBien(datos, p) == "indice" \in DOMAIN datos[p] /\ datos[p].indice = p - 1

\* record p of datos carries, as previous hash, the hash record p - 1
\* carries ("0" for the first record)
EnlaceBien(datos, p) ==
    /\ "hash_previo" \in DOMAIN datos[p]
    /\ IF p = 1 THEN datos[p].hash_previo = Cero
       ELSE /\ "hash_actual" \in DOMAIN datos[p - 1]
            /\ datos[p].hash_previo = datos[p - 1].hash_actual

\* the positions (from 0) at which datos breaks a rule of C23
Ofensas(datos) ==
    {p - 1 : p \in {q \in 1..Len(datos) : ~(IndiceBien(datos, q) /\ EnlaceBien(datos, q))}}

\* C23: ValidadorCadena accepts a list of records exactly when it is not
\* empty, record 0 has index 0 and previous hash "0" and every later record
\* i has index i and the hash of record i - 1 as previous hash; when it
\* rejects, the message names the smallest offending position, by its index
\* rule if that is broken and by its link otherwise.
C23_AceptaSii ==
    ultima.op = "validador_cadena" =>
        LET datos == ultima.args[1]
            i == Primero(Ofensas(datos))
        IN  /\ ultima.ok <=> (Len(datos) > 0 /\ Ofensas(datos) = {})
            /\ (Len(datos) > 0 /\ Ofensas(datos) # {}) =>
                 ultima.msg =
                    CASE i = 0 /\ ~IndiceBien(datos, 1) ->
                            Msg("El primer bloque debe tener indice 0", 0)
                      [] i = 0 /\ IndiceBien(datos, 1) ->
                            Msg("El bloque genesis debe tener hash_previo = '0'", 0)
                      [] i > 0 /\ ~IndiceBien(datos, i + 1) ->
                            Msg("Indice incorrecto en bloque", i)
                      [] OTHER ->
                            Msg("Cadena rota en bloque: hash_previo no coincide", i)

\* the positions of the pipeline vs whose rule rejects
Rechazan(vs, reglas) == {i \in 1..Len(vs) : ~reglas[vs[i]]}

\* C24: validar on a linear pipeline returns (False, message) of the first
\* validator whose own rule fails, and no validator after it has run; when
\* every rule passes each validator has run once, in pipeline order, and
\* the result is (True, ...).
C24_Cortocircuito ==
    ultima.op = "validar" =>
        LET vs == ultima.args[1]
            reglas == ultima.args[2]
            invocados == ultima.args[3]
        IN  IF Rechazan(vs, reglas) = {}
            THEN ultima.ok /\ invocados = vs
            ELSE LET i == Primero(Rechazan(vs, reglas))
                 IN  /\ ~ultima.ok
                     /\ ultima.msg = Msg("regla", vs[i])
                     /\ invocados = SubSeq(vs, 1, i)

\* a pipeline of three whose second and third rules reject has answered
\* with the second validator's message after running the first two
C24_Testigo ==
    /\ ultima.op = "validar"
    /\ Len(ultima.args[1]) = 3
    /\ Rechazan(ultima.args[1], ultima.args[2]) = {2, 3}
    /\ ~ultima.ok
    /\ Len(ultima.args[3]) = 2

\* the fields of a block other than its payload
CamposFijos == {"indice", "timestamp", "hash_previo", "nonce", "hash_actual"}

\* C25: a successful simular_ataque(i, payload) leaves the length of the
\* chain, the index, timestamp, previous hash, nonce and stored hash of every
\* block, block i included, and the payload of every other block as they
\* were; so every block other than i passes or fails validar as before.
C25_SoloElPayload ==
    [][(ultima'.op = "simular_ataque" /\ ultima'.ok) =>
          /\ Len(cadena') = Len(cadena)
          /\ \A p \in 1..Len(cadena) :
                /\ \A k \in CamposFijos : cadena'[p][k] = cadena[p][k]
                /\ p # ultima'.args[1] + 1 =>
                      /\ cadena'[p].datos = cadena[p].datos
                      /\ PasaValidar(cadena'[p]) <=> PasaValidar(cadena[p])
      ]_vars

\* the middle block of a chain of three was attacked: it fails validar, its
\* neighbours pass
C25_Testigo ==
    /\ ultima.op = "simular_ataque" /\ ultima.ok
    /\ ultima.args = <<1>>
    /\ Len(cadena) = 3
    /\ cadena[2].datos = DatosAtaque
    /\ ~PasaValidar(cadena[2])
    /\ PasaValidar(cadena[1]) /\ PasaValidar(cadena[3])

\* C26: obtener_estadisticas leaves the chain as it was and, in every
\* reachable state, returns the number of blocks as total_bloques, the flag
\* validar_cadena returns in that state as es_valida, and a mean interval
\* of zero when there is at most one block.
C26_VistaCoherente ==
    [][ultima'.op = "obtener_estadisticas" =>
          /\ cadena' = cadena
          /\ ultima'.ok
          /\ ultima'.args[1] = Len(cadena)
          /\ ultima'.args[2] = validar_cadena(cadena).ok
          /\ Len(cadena) <= 1 => ultima'.args[3][1] = 0
      ]_vars

\* C27: whenever the transaction validator accepts the sender, receiver and
\* amount given to agregar_bloque_con_transaccion, the call returns
\* (True, ...) and the chain grows by exactly one block whose payload
\* carries those fields.
C27_ValidadoEntoncesAgregado ==
    [][(/\ ultima'.op = "agregar_bloque_con_transaccion"
        /\ (ultima' # ultima \/ cadena' # cadena)
        /\ (VeredictoValidador.ok)') =>
          /\ ultima'.ok
          /\ Len(cadena') = Len(cadena) + 1
          /\ SubSeq(cadena', 1, Len(cadena)) = cadena
          /\ LET datos == Ultimo(cadena').datos
             IN  /\ {"emisor", "receptor", "cantidad"} \subseteq DOMAIN datos
                 /\ datos.emisor = ultima'.args[1]
                 /\ datos.receptor = ultima'.args[2]
                 /\ datos.cantidad = ultima'.args[3]
      ]_vars

\* C28: in every reachable state, valid or corrupted, a successful
\* agregar_bloque leaves validar_cadena with the flag it returned before
\* (and, when it fails, with the same message); the append is accepted on a
\* corrupted chain too, and the new block carries the tail's stored hash as
\* its previous hash.
C28_AgregarNoCambiaVeredicto ==
    [][(ultima'.op = "agregar_bloque" /\ ultima'.ok /\ cadena' # cadena) =>
          LET antes == validar_cadena(cadena)
              despues == validar_cadena(cadena')
          IN  /\ despues.exc = antes.exc
              /\ despues.ok = antes.ok
              /\ ~antes.ok => despues.msg = antes.msg
              /\ Ultimo(cadena').hash_previo = Ultimo(cadena).hash_actual
      ]_vars

\* a block was appended to a chain whose tail had been attacked; the chain
\* still fails for that block
C28_Testigo ==
    /\ ultima.op = "agregar_bloque" /\ ultima.ok
    /\ Len(cadena) = 3
    /\ ~PasaValidar(cadena[2])
    /\ PasaValidar(cadena[1]) /\ PasaValidar(cadena[3])
    /\ cadena[3].hash_previo = cadena[2].hash_actual
    /\ validar_cadena(cadena).msg = Msg("Bloque tiene hash invalido", 1)

\* C29: when a notification round ends, every observer that was registered
\* when it started and was not unregistered during it has been invoked
\* exactly once in the round, whatever the callbacks registered or
\* unregistered meanwhile.
C29_RondaCompleta ==
    [][(pc = "notificando" /\ pc' = "idle") =>
          \A o \in Observadores :
              (Cuenta(inicio, o) > 0 /\ Cuenta(observadores, o) > 0)
                 => Cuenta(llamados, o) = 1
      ]_vars

\* the controller calls that only read
OpsDeLectura ==
    {"obtener_cadena_completa", "validar_cadena", "obtener_estadisticas",
     "buscar_bloques", "exportar_blockchain"}

\* C30: when a controller operation has returned failure (a rejected
\* transaction, a failed append, a failed import, a simular_ataque out of
\* range), and when a read-only operation (the chain, validation,
\* statistics, search, export) has returned, no observer was invoked for it.
C30_SinCambioSinAviso ==
    (/\ pc = "idle"
     /\ \/ ultima.op \in OpsDeLectura
        \/ (ultima.op \in OpsConNotificacion /\ ~ultima.ok))
    => llamados = <<>>

\* with two observers registered, an import has failed and nobody was told
C30_Testigo ==
    /\ pc = "idle"
    /\ Len(observadores) = 2
    /\ ultima.op = "importar_blockchain" /\ ~ultima.ok
    /\ llamados = <<>>

====
